---- MODULE Spec2Model ----
(***************************************************************************)
(* A model of backbone/views.py: BackboneAPIView, the generic view that    *)
(* exposes a model's records as JSON (list, detail, create, update,        *)
(* delete).  The store is the model's table; one action per HTTP handler.  *)
(***************************************************************************)
EXTENDS Integers, Sequences, FiniteSets, TLC

\* ------------------------------------------------------------------ bounds
MaxId == 2        \* primary keys are drawn from 1..MaxId
MaxVal == 1       \* the model's one data field, `name`, holds 0..MaxVal
MaxPage == 3      \* integer `page` parameters are drawn from 0..MaxPage
MaxFields == 2    \* length of the field lists handed to serialize on its own

Ids == 1..MaxId
Values == 0..MaxVal

\* ------------------------------------------------------- python-side values
\* An optional value is a sequence of length 0 (None) or 1.
None == <<>>
Some(x) == <<x>>

\* A dict is a function from keys to tagged values <<tag, n>>.
EmptyDict == [k \in {} |-> <<"", 0>>]

Perms == {"add", "change", "delete"}
Users == SUBSET Perms

\* ------------------------------------------------------------------- state
VARIABLES
    view,     \* the view class serving the requests (its class attributes)
    store,    \* the model's table: id -> name
    before,   \* the table as it was when the last request arrived
    gone,     \* ids removed by a DELETE with no create since
    req,      \* the request being answered
    resp,     \* the response to it
    call,     \* the arguments of a call of serialize on its own
    result    \* what that call returned or raised
vars == <<view, store, before, gone, req, resp, call, result>>

\* --------------------------------------------------------------- the model
\* A model instance: its primary key and its one data field.
Obj(i, n) == [id |-> i, name |-> n]

\* Names a field list may mention.  The sample model has the database fields
\* id and name, the methods label and both, and the property prop; the sample
\* view classes define the methods upper and both.
DbFields == {"id", "name"}
ModelCallables == {"label", "both"}
ModelProps == {"prop"}
ViewAttrs == {"upper", "both"}
FieldNames == DbFields \cup ModelCallables \cup ModelProps \cup ViewAttrs \cup {"zzz"}

\* An entry of a field list: a name, or a callable with a __name__.
Name(f) == [callable |-> FALSE, name |-> f]
Callable(f) == [callable |-> TRUE, name |-> f]
FieldEntries == {Name(f) : f \in FieldNames} \cup {Callable("calc"), Callable("name")}

\* The result of a call, kept as a term: which kind of thing was called or
\* read, under which name, on which object.
Term(source, attr, obj) == <<source, attr, obj.id, obj.name>>

\* getattr(obj, field) for a database field or property of the model.
GetAttr(obj, field) ==
    IF field = "id" THEN <<"attr", field, obj.id, obj.id>>
    ELSE <<"attr", field, obj.id, obj.name>>

\* hasattr(self, field) and hasattr(obj, field)
HasViewAttr(field) == field \in ViewAttrs
HasModelAttr(field) == field \in DbFields \cup ModelCallables \cup ModelProps

\* dict.update
Update(d, e) ==
    [k \in DOMAIN d \cup DOMAIN e |-> IF k \in DOMAIN e THEN e[k] ELSE d[k]]

\* AllFieldsSerializer().serialize([obj], fields=selected); getvalue()[0]['fields']:
\* the model's database fields, the primary key among them, that are selected.
SerializerFields(obj, selected) ==
    [f \in DbFields \cap selected |->
        IF f = "id" THEN <<"db", f, obj.id, obj.id>> ELSE <<"db", f, obj.id, obj.name>>]

Range(s) == {s[i] : i \in DOMAIN s}

\* The loop with the model consulted before the view.
RECURSIVE ResolveFields_model_first(_, _, _)
ResolveFields_model_first(obj, fields, acc) ==
    IF fields = <<>> \/ acc.raised THEN acc
    ELSE LET field == Head(fields)
             f == field.name
             next ==
                IF field.callable
                THEN [acc EXCEPT !.data = Update(@, f :> Term("callable", f, obj))]
                ELSE IF HasModelAttr(f)
                THEN IF f \in ModelCallables
                     THEN [acc EXCEPT !.data = Update(@, f :> Term("call", f, obj))]
                     ELSE [acc EXCEPT !.remaining = Append(@, f)]
                ELSE IF HasViewAttr(f)
                THEN [acc EXCEPT !.data = Update(@, f :> Term("view", f, obj))]
                ELSE [acc EXCEPT !.raised = TRUE]
         IN ResolveFields_model_first(obj, Tail(fields), next)

\* The loop of serialize over the field list: the dict built so far, the
\* names left for the serializer, and whether AttributeError was raised.
RECURSIVE ResolveFields(_, _, _)
ResolveFields(obj, fields, acc) ==
    IF fields = <<>> \/ acc.raised THEN acc
    ELSE LET field == Head(fields)
             f == field.name
             next ==
                IF field.callable
                THEN [acc EXCEPT !.data = Update(@, f :> Term("callable", f, obj))]
                ELSE IF HasViewAttr(f)
                THEN [acc EXCEPT !.data = Update(@, f :> Term("view", f, obj))]
                ELSE IF HasModelAttr(f)
                THEN IF f \in ModelCallables
                     THEN [acc EXCEPT !.data = Update(@, f :> Term("call", f, obj))]
                     ELSE [acc EXCEPT !.remaining = Append(@, f)]
                ELSE [acc EXCEPT !.raised = TRUE]
         IN ResolveFields(obj, Tail(fields), next)

serialize(obj, fields) ==
    LET acc == ResolveFields(obj, fields,
                   [data |-> EmptyDict, remaining |-> <<>>, raised |-> FALSE])
        data == Update(acc.data, SerializerFields(obj, Range(acc.remaining)))
        left == Range(acc.remaining) \ DOMAIN data
    IN IF acc.raised
       THEN [raised |-> TRUE, data |-> EmptyDict]
       ELSE [raised |-> FALSE,
             data |-> Update(data, [f \in left |-> GetAttr(obj, f)])]

\* ------------------------------------------------------------ view classes
\* A view class is its class attributes (views.py lines 16-21) and its
\* overrides of the two data-permission hooks, given as the cleaned `name`
\* values for which the hook returns False (the base class denies none).
BaseView ==
    [paginate_by |-> None, ordering |-> None, display_fields |-> <<>>,
     deny_add |-> {}, deny_update |-> {}]
PagedView ==
    [paginate_by |-> Some(1), ordering |-> Some("-id"),
     display_fields |-> <<Name("name")>>,
     deny_add |-> {0}, deny_update |-> {}]
MethodsView ==
    [paginate_by |-> Some(2), ordering |-> None,
     display_fields |-> <<Name("both"), Name("label"), Name("prop"), Callable("calc")>>,
     deny_add |-> {}, deny_update |-> {0}]
Views == {BaseView, PagedView, MethodsView}

\* ---------------------------------------------------------------- requests
\* The body of a request: not JSON at all, JSON null, a JSON array with
\* elements, or a JSON object with or without the key name, whose value is a
\* number, a numeric string or a string the form field rejects.
Raws == [t : {"num", "str"}, v : Values] \cup {[t |-> "bad", v |-> 0]}
Bodies ==
    {[kind |-> "garbage", name |-> None], [kind |-> "null", name |-> None],
     [kind |-> "array", name |-> None], [kind |-> "object", name |-> None]}
    \cup {[kind |-> "object", name |-> Some(raw)] : raw \in Raws}
NoBody == [kind |-> "garbage", name |-> None]

\* The `page` GET parameter: absent, an integer literal, or other text.
PageParams ==
    {[kind |-> "absent", n |-> 0], [kind |-> "text", n |-> 0]}
    \cup {[kind |-> "int", n |-> n] : n \in 0..MaxPage}
NoPage == [kind |-> "absent", n |-> 0]

\* The id captured from the URL: None on the collection URL, else a string
\* of digits, which is truthy whatever its value.
UrlIds == {None} \cup {Some(i) : i \in 0..MaxId}

\* Extra keyword arguments captured from the URL.  SiteKwargs are those all
\* four handlers accept: delete takes the id and nothing more, so a route
\* serving every method captures the id only.  UrlKwargs are those get, post
\* and put accept (**kwargs): a route may capture more.
SiteKwargs == {{}}
UrlKwargs == {{}, {"owner"}}

Request(method, id, kwargs, user, body, page) ==
    [method |-> method, id |-> id, kwargs |-> kwargs, user |-> user,
     body |-> body, page |-> page]

\* --------------------------------------------------------------- responses
PermissionMsg == "You do not have permission to perform this action."
\* (the source's backquotes around the word page are left out)
NotAnIntegerMsg == "Invalid page parameter: Not a valid integer."
OutOfRangeMsg == "Invalid page parameter: Out of range."
ParseMsg == "Unable to parse JSON request body."

Response(status, kind, text) ==
    [status |-> status, kind |-> kind, text |-> text, data |-> EmptyDict,
     items |-> <<>>, location |-> None, calls |-> <<>>, hook_arg |-> None,
     qs_kwargs |-> None]

HttpResponseForbidden(text) == Response(403, "text", text)
HttpResponseBadRequest(text) == Response(400, "text", text)
\* raise Http404 inside get_object_or_404
Http404 == Response(404, "text", "Not Found")
\* an exception that leaves the view: the framework answers 500
ServerError(exc) == Response(500, "text", exc)

\* What a handler leaves behind: the table and the response.
Outcome(s, r) == [store |-> s, resp |-> r]
\* The response with the calls made on the way to it.
Traced(r, calls, kw) == [r EXCEPT !.calls = calls, !.qs_kwargs = kw]

\* ---------------------------------------------------------------- queryset
Min(S) == CHOOSE x \in S : \A y \in S : x <= y
Max(S) == CHOOSE x \in S : \A y \in S : x >= y

RECURSIVE Ascending(_)
Ascending(S) == IF S = {} THEN <<>> ELSE <<Min(S)>> \o Ascending(S \ {Min(S)})
RECURSIVE Descending(_)
Descending(S) == IF S = {} THEN <<>> ELSE <<Max(S)>> \o Descending(S \ {Max(S)})

\* self.model._default_manager.all(), ordered by self.ordering when it is
\* set and in primary-key order otherwise.  The keyword arguments are
\* accepted and not used.
queryset(v, s, kwargs) ==
    LET ids == IF v.ordering # None THEN Descending(DOMAIN s) ELSE Ascending(DOMAIN s)
    IN [i \in DOMAIN ids |-> Obj(ids[i], s[ids[i]])]

\* get_object_or_404(qs, id=id): the object, or None where Http404 is raised.
get_object_or_404(qs, id) ==
    LET hits == {i \in DOMAIN qs : qs[i].id = id}
    IN IF hits = {} THEN None ELSE Some(qs[CHOOSE i \in hits : TRUE])

\* ----------------------------------------------------------------- reading
DetailFields(v) == <<Name("id")>> \o v.display_fields

get_object_detail(v, obj, calls, kw) ==
    LET ser == serialize(obj, DetailFields(v))
    IN IF ser.raised
       THEN Traced(ServerError("AttributeError"), Append(calls, "serialize"), kw)
       ELSE Traced([Response(200, "object", "") EXCEPT !.data = ser.data],
                   Append(calls, "serialize"), kw)

\* Paginator(qs, per_page).page(number): the page's object_list, or the
\* exception raised.  number is what request.GET.get('page', 1) returned.
PaginatorPage(qs, per_page, number) ==
    LET count == Len(qs)
        hits == IF count > 1 THEN count ELSE 1
        num_pages == (hits + per_page - 1) \div per_page
        bottom == (number.n - 1) * per_page
        top == IF bottom + per_page >= count THEN count ELSE bottom + per_page
    IN IF number.kind = "text" THEN [error |-> "PageNotAnInteger", object_list |-> <<>>]
       ELSE IF number.n < 1 \/ number.n > num_pages
       THEN [error |-> "EmptyPage", object_list |-> <<>>]
       ELSE [error |-> "", object_list |-> SubSeq(qs, bottom + 1, top)]

\* request.GET.get('page') with the default left out: None, no integer.
RequestedPage_no_default(r) ==
    IF r.page.kind = "absent" THEN [kind |-> "text", n |-> 0] ELSE r.page

\* request.GET.get('page', 1)
RequestedPage(r) ==
    IF r.page.kind = "absent" THEN [kind |-> "int", n |-> 1] ELSE r.page

get_collection(v, s, r) ==
    LET qs == queryset(v, s, r.kwargs)
        kw == Some(r.kwargs)
        paged == PaginatorPage(qs, v.paginate_by[1], RequestedPage(r))
        objs == IF v.paginate_by # None THEN paged.object_list ELSE qs
        sers == [i \in DOMAIN objs |-> serialize(objs[i], DetailFields(v))]
    IN IF v.paginate_by # None /\ paged.error = "PageNotAnInteger"
       THEN Traced(HttpResponseBadRequest(NotAnIntegerMsg),
                   <<"queryset", "paginator">>, kw)
       ELSE IF v.paginate_by # None /\ paged.error = "EmptyPage"
       THEN Traced(HttpResponseBadRequest(OutOfRangeMsg),
                   <<"queryset", "paginator">>, kw)
       ELSE LET calls == IF v.paginate_by # None THEN <<"queryset", "paginator", "serialize">>
                         ELSE <<"queryset", "serialize">>
            IN IF \E i \in DOMAIN sers : sers[i].raised
               THEN Traced(ServerError("AttributeError"), calls, kw)
               ELSE Traced([Response(200, "array", "") EXCEPT
                               !.items = [i \in DOMAIN sers |-> sers[i].data]],
                           calls, kw)

get(v, s, r) ==
    IF r.id # None
    THEN LET found == get_object_or_404(queryset(v, s, r.kwargs), r.id[1])
         IN IF found = None
            THEN Traced(Http404, <<"queryset", "get_object_or_404">>, Some(r.kwargs))
            ELSE get_object_detail(v, found[1], <<"queryset", "get_object_or_404">>,
                                   Some(r.kwargs))
    ELSE get_collection(v, s, r)

\* ------------------------------------------------------------- permissions
\* request.user.has_perm('<app>.<action>_<model>')
has_perm(user, perm) == perm \in user
has_add_permission(r) == has_perm(r.user, "add")
has_update_permission(r, obj) == has_perm(r.user, "change")
has_delete_permission_change(r, obj) == has_perm(r.user, "change")
has_delete_permission(r, obj) == has_perm(r.user, "delete")
has_add_permission_for_data(v, r, cleaned_data) == cleaned_data \notin v.deny_add
has_update_permission_for_data(v, r, cleaned_data) == cleaned_data \notin v.deny_update

\* ------------------------------------------------------------------- forms
\* json.loads(request.body): ValueError on text that is not JSON.
JsonLoads(body) ==
    IF body.kind = "garbage"
    THEN [ok |-> FALSE, type |-> "", name |-> None]
    ELSE [ok |-> TRUE, type |-> body.kind, name |-> body.name]

\* The model form built from the parsed data (get_form_instance).  Given
\* None the form is unbound: not valid, and with no errors.  is_valid() reads
\* other data as a mapping, which an array is not.  The field name is
\* required and must be a number or a numeric string, cleaned to the number.
FormCrashes(data) == data.type = "array"
FormIsValid(data) ==
    data.type = "object" /\ data.name # None /\ data.name[1].t \in {"num", "str"}
CleanedData(data) == data.name[1].v
FormErrors(data) ==
    IF data.type = "null" THEN EmptyDict
    ELSE IF data.name = None THEN "name" :> <<"error", "required", 0, 0>>
    ELSE "name" :> <<"error", "invalid", 0, 0>>

\* reverse(url_name, args=[id])
Reverse(url_name, id) == [name |-> url_name, id |-> id]

\* ----------------------------------------------------------------- writing
\* The body did not parse, with ValueError left uncaught.
BadJson_uncaught(s, calls, kw) ==
    Outcome(s, Traced(ServerError("ValueError"), Append(calls, "json.loads"), kw))

\* except ValueError: return HttpResponseBadRequest(...)
BadJson(s, calls, kw) ==
    Outcome(s, Traced(HttpResponseBadRequest(ParseMsg), Append(calls, "json.loads"), kw))

\* The detail response returned as it is, its status left at 200.
CreatedResponse_200(detail, obj, cleaned) ==
    IF detail.status # 200
    THEN [detail EXCEPT !.hook_arg = Some(cleaned)]
    ELSE [detail EXCEPT !.hook_arg = Some(cleaned),
                        !.calls = Append(@, "reverse"),
                        !.location = Some(Reverse("detail", obj.id))]

\* The response to a create: the new object's details, status 201 and the
\* Location of its detail URL (an exception in get_object_detail leaves
\* before either is set).
CreatedResponse(detail, obj, cleaned) ==
    IF detail.status # 200
    THEN [detail EXCEPT !.hook_arg = Some(cleaned)]
    ELSE [detail EXCEPT !.status = 201,
                        !.hook_arg = Some(cleaned),
                        !.calls = Append(@, "reverse"),
                        !.location = Some(Reverse("detail", obj.id))]

\* The instance as it was fetched, before the form wrote to it.
SavedInstance_stale(obj, cleaned) == obj

\* form.save() of a form bound to an instance writes the cleaned data to
\* that instance, the one get_object_detail is then given.
SavedInstance(obj, cleaned) == [obj EXCEPT !.name = cleaned]

add_object(v, s, r, nid, calls) ==
    LET parsed == JsonLoads(r.body)
        checked == calls \o <<"json.loads", "get_form_instance", "is_valid">>
        cleaned == CleanedData(parsed)
        hooked == Append(checked, "has_add_permission_for_data")
        obj == Obj(nid, cleaned)
        detail == get_object_detail(v, obj, Append(hooked, "save"), None)
    IN IF ~parsed.ok
       THEN BadJson(s, calls, None)
       ELSE IF FormCrashes(parsed)
       THEN Outcome(s, Traced(ServerError("AttributeError"), checked, None))
       ELSE IF FormIsValid(parsed)
       THEN IF ~has_add_permission_for_data(v, r, cleaned)
            THEN Outcome(s, [Traced(HttpResponseForbidden(PermissionMsg), hooked, None)
                                EXCEPT !.hook_arg = Some(cleaned)])
            ELSE Outcome(s @@ (nid :> cleaned), CreatedResponse(detail, obj, cleaned))
       ELSE Outcome(s, Traced([Response(400, "object", "") EXCEPT !.data = FormErrors(parsed)],
                              checked, None))

\* post without the test of id: a POST to a detail URL adds an object.
post_any_url(v, s, r, nid) ==
    IF ~has_add_permission(r)
    THEN Outcome(s, Traced(HttpResponseForbidden(PermissionMsg),
                           <<"has_add_permission">>, None))
    ELSE add_object(v, s, r, nid, <<"has_add_permission">>)

post(v, s, r, nid) ==
    IF r.id # None
    THEN Outcome(s, HttpResponseForbidden(""))
    ELSE IF ~has_add_permission(r)
    THEN Outcome(s, Traced(HttpResponseForbidden(PermissionMsg),
                           <<"has_add_permission">>, None))
    ELSE add_object(v, s, r, nid, <<"has_add_permission">>)

update_object(v, s, r, obj, calls, kw) ==
    LET parsed == JsonLoads(r.body)
        checked == calls \o <<"json.loads", "get_form_instance", "is_valid">>
        cleaned == CleanedData(parsed)
        hooked == Append(checked, "has_update_permission_for_data")
        saved == SavedInstance(obj, cleaned)
    IN IF ~parsed.ok
       THEN BadJson(s, calls, kw)
       ELSE IF FormCrashes(parsed)
       THEN Outcome(s, Traced(ServerError("AttributeError"), checked, kw))
       ELSE IF FormIsValid(parsed)
       THEN IF ~has_update_permission_for_data(v, r, cleaned)
            THEN Outcome(s, [Traced(HttpResponseForbidden(PermissionMsg), hooked, kw)
                                EXCEPT !.hook_arg = Some(cleaned)])
            ELSE Outcome([s EXCEPT ![obj.id] = cleaned],
                         [get_object_detail(v, saved, Append(hooked, "save"), kw)
                             EXCEPT !.hook_arg = Some(cleaned)])
       ELSE Outcome(s, Traced([Response(400, "object", "") EXCEPT !.data = FormErrors(parsed)],
                              checked, kw))

\* put with the permission checked before the object is looked up.
put_permission_first(v, s, r) ==
    IF r.id # None
    THEN LET found == get_object_or_404(queryset(v, s, {}), r.id[1])
             looked == <<"has_update_permission", "queryset", "get_object_or_404">>
         IN IF ~has_perm(r.user, "change")
            THEN Outcome(s, Traced(HttpResponseForbidden(PermissionMsg),
                                   <<"has_update_permission">>, None))
            ELSE IF found = None
            THEN Outcome(s, Traced(Http404, looked, Some({})))
            ELSE update_object(v, s, r, found[1], looked, Some({}))
    ELSE Outcome(s, HttpResponseForbidden(""))

put(v, s, r) ==
    IF r.id # None
    THEN LET found == get_object_or_404(queryset(v, s, {}), r.id[1])
             looked == <<"queryset", "get_object_or_404">>
         IN IF found = None
            THEN Outcome(s, Traced(Http404, looked, Some({})))
            ELSE IF ~has_update_permission(r, found[1])
            THEN Outcome(s, Traced(HttpResponseForbidden(PermissionMsg),
                                   Append(looked, "has_update_permission"), Some({})))
            ELSE update_object(v, s, r, found[1],
                               Append(looked, "has_update_permission"), Some({}))
    ELSE Outcome(s, HttpResponseForbidden(""))

\* delete_object answering 204 without obj.delete().
delete_object_kept(s, obj, calls, kw) ==
    Outcome(s, Traced(Response(204, "empty", ""), Append(calls, "delete"), kw))

delete_object(s, obj, calls, kw) ==
    Outcome([i \in DOMAIN s \ {obj.id} |-> s[i]],
            Traced(Response(204, "empty", ""), Append(calls, "delete"), kw))

\* delete(self, request, id=None) takes no further keyword arguments: called
\* with one it raises TypeError before its body runs.
delete(v, s, r) ==
    IF r.kwargs # {}
    THEN Outcome(s, ServerError("TypeError"))
    ELSE IF r.id # None
    THEN LET found == get_object_or_404(queryset(v, s, {}), r.id[1])
             looked == <<"queryset", "get_object_or_404">>
         IN IF found = None
            THEN Outcome(s, Traced(Http404, looked, Some({})))
            ELSE IF ~has_delete_permission(r, found[1])
            THEN Outcome(s, Traced(HttpResponseForbidden(PermissionMsg),
                                   Append(looked, "has_delete_permission"), Some({})))
            ELSE delete_object(s, found[1], Append(looked, "has_delete_permission"),
                               Some({}))
    ELSE Outcome(s, HttpResponseForbidden(""))

\* ----------------------------------------------------------------- actions
NoRequest == Request("", None, {}, {}, NoBody, NoPage)
NoResponse == Response(0, "empty", "")

TypeOK ==
    /\ view \in Views
    /\ DOMAIN store \subseteq Ids
    /\ \A i \in DOMAIN store : store[i] \in Values

\* One request served: the table and the response it leaves, and what the
\* request found.
Serve(r, out) ==
    /\ req' = r
    /\ resp' = out.resp
    /\ before' = store
    /\ store' = out.store
    /\ gone' = IF DOMAIN out.store \ DOMAIN store # {} THEN {}
               ELSE gone \cup (DOMAIN store \ DOMAIN out.store)
    /\ UNCHANGED <<view, call, result>>

Get(K) ==
    /\ req = NoRequest
    /\ \E id \in UrlIds, kwargs \in K, page \in PageParams :
        /\ id # None => page = NoPage
        /\ LET r == Request("GET", id, kwargs, {}, NoBody, page)
           IN Serve(r, Outcome(store, get(view, store, r)))

\* The primary keys form.save() may insert under: any the table does not
\* hold.  With every key of 1..MaxId taken, only requests that insert nothing
\* are served.
FreeIds(s) == IF Ids \ DOMAIN s = {} THEN {0} ELSE Ids \ DOMAIN s

Post(K) ==
    /\ req = NoRequest
    /\ \E id \in UrlIds, kwargs \in K, user \in Users, body \in Bodies,
          nid \in FreeIds(store) :
        LET r == Request("POST", id, kwargs, user, body, NoPage)
            out == post(view, store, r, nid)
        IN /\ nid \in Ids \/ out.store = store
           /\ Serve(r, out)

Put(K) ==
    /\ req = NoRequest
    /\ \E id \in UrlIds, kwargs \in K, user \in Users, body \in Bodies :
        LET r == Request("PUT", id, kwargs, user, body, NoPage)
        IN Serve(r, put(view, store, r))

Delete(K) ==
    /\ req = NoRequest
    /\ \E id \in UrlIds, kwargs \in K, user \in Users :
        LET r == Request("DELETE", id, kwargs, user, NoBody, NoPage)
        IN Serve(r, delete(view, store, r))

\* The response has been returned: the request and response objects of this
\* call are dropped, and the view waits for the next request.
Finish ==
    /\ req # NoRequest
    /\ req' = NoRequest
    /\ resp' = NoResponse
    /\ before' = store
    /\ UNCHANGED <<view, store, gone, call, result>>

NoCall == [obj |-> Obj(0, 0), fields |-> <<>>]
NoResult == [done |-> FALSE, raised |-> FALSE, data |-> EmptyDict]

\* The state after construction: a view class, a table, and no request yet.
Init ==
    /\ view \in Views
    /\ store \in UNION {[S -> Values] : S \in SUBSET Ids}
    /\ before = store
    /\ gone = {}
    /\ req = NoRequest
    /\ resp = NoResponse
    /\ call = NoCall
    /\ result = NoResult

Next ==
    \/ Get(SiteKwargs) \/ Post(SiteKwargs) \/ Put(SiteKwargs) \/ Delete(SiteKwargs)
    \/ Finish
Spec == Init /\ [][Next]_vars

\* Requests routed by a project's own URL patterns, which may capture more.
KwNext ==
    \/ Get(UrlKwargs) \/ Post(UrlKwargs) \/ Put(UrlKwargs) \/ Delete(UrlKwargs)
    \/ Finish
KwSpec == Init /\ [][KwNext]_vars

\* serialize called on its own, on any object with any short field list.
RECURSIVE SeqsUpTo(_, _)
SeqsUpTo(S, n) ==
    IF n = 0 THEN {<<>>}
    ELSE SeqsUpTo(S, n - 1) \cup
         {Append(q, x) : q \in {q \in SeqsUpTo(S, n - 1) : Len(q) = n - 1}, x \in S}

SerInit ==
    /\ view = MethodsView
    /\ store = <<>>
    /\ before = store
    /\ gone = {}
    /\ req = NoRequest
    /\ resp = NoResponse
    /\ call \in [obj : {Obj(i, n) : i \in Ids, n \in Values},
                 fields : SeqsUpTo(FieldEntries, MaxFields)]
    /\ result = NoResult

Serialize ==
    /\ ~result.done
    /\ result' = [done |-> TRUE] @@ serialize(call.obj, call.fields)
    /\ UNCHANGED <<view, store, before, gone, req, resp, call>>

SerNext == Serialize
SerSpec == SerInit /\ [][SerNext]_vars

\* ================================================================== claims
\* What the claims read off a state: the request was answered, what it
\* addressed, and what its body would clean to.
Answered == req.method # ""
Is(method) == req.method = method
OnCollection == req.id = None
OnExisting == req.id # None /\ req.id[1] \in DOMAIN before
OnUnknown == req.id # None /\ req.id[1] \notin DOMAIN before
Unchanged == store = before
Created == DOMAIN store \ DOMAIN before
Did(name) == \E i \in DOMAIN resp.calls : resp.calls[i] = name
BodyIsJson == req.body.kind # "garbage"
BodyIsObject == req.body.kind = "object"
BodyValidates ==
    BodyIsObject /\ req.body.name # None /\ req.body.name[1].t # "bad"
BodyValue == req.body.name[1].v
\* is_valid() returned False: an unbound form, or a bound one with errors.
FormInvalid == req.body.kind = "null" \/ (BodyIsObject /\ ~BodyValidates)

\* A record is created, saved or removed only with the permission for it.
OnlyIfPermitted ==
    /\ (Is("POST") /\ (Created # {} \/ Did("save")))
          => /\ "add" \in req.user
             /\ resp.hook_arg # None /\ resp.hook_arg[1] \notin view.deny_add
    /\ (Is("PUT") /\ OnExisting /\ (~Unchanged \/ Did("save")))
          => /\ "change" \in req.user
             /\ resp.hook_arg # None /\ resp.hook_arg[1] \notin view.deny_update
    /\ (Is("DELETE") /\ OnExisting /\ (~Unchanged \/ Did("delete")))
          => "delete" \in req.user
AddHookTrue == resp.hook_arg # None /\ resp.hook_arg[1] \notin view.deny_add
UpdateHookTrue == resp.hook_arg # None /\ resp.hook_arg[1] \notin view.deny_update

\* C1 (as stated): permission checks gate every state-changing request.  A
\* POST to the collection creates a record only if the user has the add
\* permission and the add hook returned True; a PUT to an existing id changes
\* the record only if the user has the change permission and the update hook
\* returned True; a DELETE of an existing id removes it only if the user has
\* the delete permission; in every other case the response is 403 and no
\* record is created, changed or removed.
C1_EveryOtherCase403 ==
    Answered =>
        /\ OnlyIfPermitted
        /\ (Is("POST") /\ OnCollection /\ ~("add" \in req.user /\ AddHookTrue))
              => resp.status = 403 /\ Unchanged
        /\ (Is("PUT") /\ OnExisting /\ ~("change" \in req.user /\ UpdateHookTrue))
              => resp.status = 403 /\ Unchanged
        /\ (Is("DELETE") /\ OnExisting /\ "delete" \notin req.user)
              => resp.status = 403 /\ Unchanged

\* C1 (amended): the same gates; and whenever one of these permission checks
\* fails, the model permission missing or the data hook called and returning
\* False, the response is 403 and no record is created, changed or removed.
C1_PermissionsGate ==
    Answered =>
        /\ OnlyIfPermitted
        /\ (Is("POST") /\ OnCollection /\ "add" \notin req.user)
              => resp.status = 403 /\ Unchanged
        /\ (Is("POST") /\ resp.hook_arg # None /\ ~AddHookTrue)
              => resp.status = 403 /\ Unchanged
        /\ (Is("PUT") /\ OnExisting /\ "change" \notin req.user)
              => resp.status = 403 /\ Unchanged
        /\ (Is("PUT") /\ resp.hook_arg # None /\ ~UpdateHookTrue)
              => resp.status = 403 /\ Unchanged
        /\ (Is("DELETE") /\ OnExisting /\ "delete" \notin req.user)
              => resp.status = 403 /\ Unchanged

\* A PUT by a user with the change permission whose data the update hook
\* refused: answered 403, the record as it was.
C1_Witness ==
    /\ Is("PUT") /\ OnExisting /\ "change" \in req.user
    /\ resp.hook_arg # None /\ resp.hook_arg[1] \in view.deny_update
    /\ resp.hook_arg[1] # before[req.id[1]]
    /\ resp.status = 403 /\ Unchanged

C10_SameQueryset ==
    (Answered /\ ~OnCollection /\ req.method \in {"GET", "PUT", "DELETE"}
        /\ (Is("GET") \/ req.user = Perms))
    => /\ resp.qs_kwargs = Some(req.kwargs)
       /\ resp.status = 404 <=> OnUnknown

\* The request passed the model permission check of its handler.
Permitted ==
    \/ Is("POST") /\ OnCollection /\ "add" \in req.user
    \/ Is("PUT") /\ OnExisting /\ "change" \in req.user

\* C2: validation gates every write.  For a permitted POST or PUT,
\* form.save() is invoked only if the body parsed as JSON and the form built
\* from it reported is_valid(); a body that is not JSON is answered 400 with
\* no form built; an invalid form is answered 400 carrying the form's errors
\* as a JSON object; in both cases the table is as it was.
C2_ValidationGates ==
    (Answered /\ Permitted) =>
        /\ Did("save") => BodyIsJson /\ Did("is_valid") /\ BodyValidates
        /\ ~Unchanged => Did("save")
        /\ ~BodyIsJson
              => /\ resp.status = 400 /\ resp.kind = "text" /\ resp.text = ParseMsg
                 /\ ~Did("get_form_instance") /\ ~Did("is_valid")
                 /\ Unchanged
        /\ FormInvalid
              => /\ resp.status = 400 /\ resp.kind = "object"
                 /\ resp.data = FormErrors(JsonLoads(req.body))
                 /\ BodyIsObject
                       => DOMAIN resp.data = {"name"} /\ resp.data["name"][1] = "error"
                 /\ Did("is_valid") /\ ~Did("save")
                 /\ Unchanged

\* A permitted PUT whose body is a JSON object the form rejects.
C2_Witness ==
    /\ Is("PUT") /\ Permitted /\ BodyIsObject /\ req.body.name # None
    /\ ~BodyValidates
    /\ resp.status = 400 /\ resp.kind = "object" /\ Unchanged

C5_DeleteRemovesExactly ==
    Answered =>
        /\ (Is("DELETE") /\ OnExisting /\ "delete" \in req.user)
              => /\ DOMAIN store = DOMAIN before \ {req.id[1]}
                 /\ \A i \in DOMAIN store : store[i] = before[i]
                 /\ req.id[1] \in gone
                 /\ resp.status = 204 /\ resp.kind = "empty" /\ resp.text = ""
        /\ (req.method \in {"GET", "PUT", "DELETE"} /\ OnUnknown /\ req.id[1] \in gone)
              => resp.status = 404 /\ Unchanged
        /\ (Is("GET") /\ OnCollection /\ resp.status = 200)
              => \A k \in DOMAIN resp.items : resp.items[k]["id"][4] \notin gone

\* A GET of the collection, listing a record, after another record was
\* deleted and nothing created since.
C5_Witness ==
    /\ Is("GET") /\ OnCollection /\ resp.status = 200
    /\ gone # {} /\ Len(resp.items) > 0

\* C7: with paginate_by set, the collection GET returns at most paginate_by
\* objects, the page-th slice of the ordered queryset, page being 1 when the
\* parameter is absent; a page that is not an integer is answered 400 (not a
\* valid integer) and one outside the valid range 400 (out of range).  With
\* paginate_by None the parameter is ignored and every object is returned,
\* each as id plus display_fields, in queryset order.
C7_Pagination ==
    (Answered /\ Is("GET") /\ OnCollection) =>
        LET qs == queryset(view, before, req.kwargs)
            n == Len(qs)
            all == [i \in 1..n |->
                      serialize(qs[i], <<Name("id")>> \o view.display_fields).data]
            per == view.paginate_by[1]
            p == IF req.page.kind = "absent" THEN 1 ELSE req.page.n
            pages == IF n = 0 THEN 1 ELSE (n + per - 1) \div per
            rest == n - (p - 1) * per
        IN IF view.paginate_by = None
           THEN resp.status = 200 /\ resp.kind = "array" /\ resp.items = all
           ELSE IF req.page.kind = "text"
           THEN resp.status = 400 /\ resp.text = NotAnIntegerMsg
           ELSE IF p \notin 1..pages
           THEN resp.status = 400 /\ resp.text = OutOfRangeMsg
           ELSE /\ resp.status = 200 /\ resp.kind = "array"
                /\ Len(resp.items) <= per
                /\ Len(resp.items) = IF rest < per THEN rest ELSE per
                /\ \A k \in 1..Len(resp.items) : resp.items[k] = all[(p - 1) * per + k]

\* The second page of a paginated collection, holding the last record.
C7_Witness ==
    /\ Is("GET") /\ OnCollection /\ view.paginate_by # None
    /\ req.page.kind = "int" /\ req.page.n = 2
    /\ resp.status = 200 /\ Len(resp.items) = 1
    /\ Cardinality(DOMAIN before) > 1

Precedes(a, b) ==
    \A i, j \in DOMAIN resp.calls :
        (resp.calls[i] = a /\ resp.calls[j] = b) => i < j
InOrder(names) ==
    \A i, j \in DOMAIN names : i < j => Precedes(names[i], names[j])

\* C8: the checks run in a fixed order and the first that fails determines
\* the response.  POST: id in the URL 403; missing add permission 403 before
\* the body is parsed; unparseable body 400; invalid form 400; add hook False
\* 403; only then form.save().  PUT: no id 403; unknown id 404 before any
\* permission check; missing change permission 403 before the body is
\* parsed; unparseable body 400; invalid form 400; update hook False 403;
\* only then form.save().  DELETE: no id 403; unknown id 404; missing delete
\* permission 403; only then obj.delete().  The data hooks are called only
\* with the cleaned data of a form that validated.
C8_FixedOrder ==
    Answered =>
        /\ Is("POST") =>
              IF ~OnCollection THEN resp.status = 403 /\ resp.calls = <<>>
              ELSE IF "add" \notin req.user
              THEN resp.status = 403 /\ resp.calls = <<"has_add_permission">>
              ELSE IF ~BodyIsJson
              THEN resp.status = 400 /\ ~Did("get_form_instance")
              ELSE IF FormInvalid
              THEN resp.status = 400 /\ ~Did("has_add_permission_for_data")
              ELSE IF BodyValidates /\ BodyValue \in view.deny_add
              THEN resp.status = 403 /\ Did("has_add_permission_for_data") /\ ~Did("save")
              ELSE IF BodyValidates
              THEN resp.status = 201 /\ Did("save")
              ELSE ~Did("save") /\ ~Did("has_add_permission_for_data")
        /\ Is("PUT") =>
              IF OnCollection THEN resp.status = 403 /\ resp.calls = <<>>
              ELSE IF OnUnknown
              THEN resp.status = 404 /\ ~Did("has_update_permission")
              ELSE IF "change" \notin req.user
              THEN resp.status = 403 /\ Did("has_update_permission") /\ ~Did("json.loads")
              ELSE IF ~BodyIsJson
              THEN resp.status = 400 /\ ~Did("get_form_instance")
              ELSE IF FormInvalid
              THEN resp.status = 400 /\ ~Did("has_update_permission_for_data")
              ELSE IF BodyValidates /\ BodyValue \in view.deny_update
              THEN resp.status = 403 /\ Did("has_update_permission_for_data") /\ ~Did("save")
              ELSE IF BodyValidates
              THEN resp.status = 200 /\ Did("save")
              ELSE ~Did("save") /\ ~Did("has_update_permission_for_data")
        /\ Is("DELETE") =>
              IF OnCollection THEN resp.status = 403 /\ resp.calls = <<>>
              ELSE IF OnUnknown
              THEN resp.status = 404 /\ ~Did("has_delete_permission")
              ELSE IF "delete" \notin req.user
              THEN resp.status = 403 /\ Did("has_delete_permission") /\ ~Did("delete")
              ELSE resp.status = 204 /\ Did("delete")
        /\ InOrder(<<"has_add_permission", "json.loads", "get_form_instance", "is_valid",
                     "has_add_permission_for_data", "save">>)
        /\ InOrder(<<"get_object_or_404", "has_update_permission", "json.loads",
                     "get_form_instance", "is_valid", "has_update_permission_for_data",
                     "save">>)
        /\ InOrder(<<"get_object_or_404", "has_delete_permission", "delete">>)
        /\ (Did("has_add_permission_for_data") \/ Did("has_update_permission_for_data"))
              <=> resp.hook_arg # None
        /\ resp.hook_arg # None
              => BodyValidates /\ Did("is_valid") /\ resp.hook_arg = Some(BodyValue)

\* A PUT of an unknown id by a user with no permission and an unparseable
\* body: the lookup fails first.
C8_Witness ==
    /\ Is("PUT") /\ OnUnknown /\ req.user = {} /\ ~BodyIsJson
    /\ resp.status = 404

\* What the claim says one entry of the field list resolves to.
Resolved(obj, field) ==
    LET f == field.name
    IN IF field.callable THEN <<"callable", f, obj.id, obj.name>>
       ELSE IF f \in ViewAttrs THEN <<"view", f, obj.id, obj.name>>
       ELSE IF f \in ModelCallables THEN <<"call", f, obj.id, obj.name>>
       ELSE IF f \in DbFields
       THEN <<"db", f, obj.id, IF f = "id" THEN obj.id ELSE obj.name>>
       ELSE <<"attr", f, obj.id, obj.name>>
OnNeither(field) ==
    ~field.callable /\ field.name \notin ViewAttrs
        /\ field.name \notin DbFields \cup ModelCallables \cup ModelProps

\* C6: serialize(obj, fields) resolves each field in turn: a callable is
\* called with obj and stored under its __name__; else a view attribute of
\* that name is called with obj, even when the model has the name too; else a
\* callable model attribute is called; else the value comes from the
\* database-field serializer, or from getattr where the serializer produced
\* no such key.  A name on neither the view nor the model raises
\* AttributeError and nothing is returned.  (Two entries under one key leave
\* one of their two values.)
C6_SerializeFallback ==
    result.done =>
        LET fs == call.fields
            o == call.obj
        IN IF \E i \in DOMAIN fs : OnNeither(fs[i])
           THEN result.raised /\ result.data = EmptyDict
           ELSE /\ ~result.raised
                /\ DOMAIN result.data = {fs[i].name : i \in DOMAIN fs}
                /\ \A i \in DOMAIN fs :
                     IF \A j \in DOMAIN fs : fs[j].name = fs[i].name => fs[j] = fs[i]
                     THEN result.data[fs[i].name] = Resolved(o, fs[i])
                     ELSE \E j \in DOMAIN fs :
                            /\ fs[j].name = fs[i].name
                            /\ result.data[fs[i].name] = Resolved(o, fs[j])

\* A name defined on the view and on the model resolved by the view's
\* method, beside a property read with getattr.
C6_Witness ==
    /\ result.done /\ ~result.raised
    /\ call.fields = <<Name("both"), Name("prop")>>
    /\ result.data["both"][1] = "view" /\ result.data["prop"][1] = "attr"
====
